---- MODULE Spec2Model ----
(***************************************************************************)
(* The unconfirmed-transaction pool of src/visor/unconfirmed.go.           *)
(*                                                                         *)
(* The pool is the pair of maps Txns and Unspent.  Every exported method   *)
(* is one action.  The blockchain handed to a method (bc) is an argument   *)
(* of the call, as in the source; what the ledger answers (fee, validity,  *)
(* head) is therefore drawn with the call.  util.Now() is a clock reading  *)
(* that never lies before the previous reading.  The variable ret holds    *)
(* the latest call: its name, its arguments and what it returned (for      *)
(* Refresh, which returns nothing, the keys its toRemove list held).       *)
(* The source holds no lock: where callers run beside one another, a       *)
(* RecordTxn call may stand between its two map writes, and the variable   *)
(* admitting holds that call.                                              *)
(***************************************************************************)
EXTENDS Integers, Sequences, FiniteSets, TLC

VARIABLES Txns, Unspent, now, ret, admitting

vars == <<Txns, Unspent, now, ret, admitting>>

(***************************************************************************)
(* Bounds of the model.                                                    *)
(***************************************************************************)
\* the clock readings are 1..MaxTime
MaxTime == 2
\* the longest list handed to RemoveTransactions, FilterKnown and GetKnown
MaxLen == 2

(***************************************************************************)
(* Values.                                                                 *)
(***************************************************************************)
\* util.ZeroTime(): the zero time.Time, before every clock reading
ZeroTime == 0

Times == 1..MaxTime

\* time.Duration arguments of Refresh
Durations == 1..MaxTime

ErrNil == "nil"
ErrTooLarge == "Transaction too large"
ErrFeeMinimum == "Transaction fee minimum not met"
\* the error of bc.TransactionFee and the error of bc.VerifyTransaction
ErrFee == "fee computation failed"
ErrInvalid == "invalid transaction"

Addresses == {"A", "B"}

\* hashes of the ledger outputs that transactions spend
UxIds == 1..3

(***************************************************************************)
(* coin.Transaction: the inputs it spends (hashes of ledger outputs) and   *)
(* the outputs it creates.  Tx1 and Tx2 both spend ledger output 2.        *)
(***************************************************************************)
Tx1 == [In |-> <<1, 2>>, Out |-> <<[Address |-> "A", Hours |-> 5]>>]

Tx2 == [In |-> <<2, 3>>,
        Out |-> <<[Address |-> "B", Hours |-> 3], [Address |-> "A", Hours |-> 3]>>]

Transactions == {Tx1, Tx2}

\* t.Size(): one unit per input and per output
Size(t) == Len(t.In) + Len(t.Out)

RECURSIVE SumHours(_)
SumHours(outs) ==
    IF outs = <<>> THEN 0 ELSE Head(outs).Hours + SumHours(Tail(outs))

\* t.OutputHours(): the hours of all outputs
OutputHours(t) == SumHours(t.Out)

RECURSIVE Digest(_, _)
Digest(s, acc) ==
    IF s = <<>> THEN acc ELSE Digest(Tail(s), (acc * 31 + Head(s)) % 1009)

\* t.Hash(): a digest of the content (inputs, then the hours of the outputs)
Hash(t) == Digest(t.In \o [i \in 1..Len(t.Out) |-> t.Out[i].Hours], Len(t.Out))

Hashes == {Hash(t) : t \in Transactions}

\* coin.CreateUnspents(head, t): one output per output of t, stamped with head
CreateUnspents(head, t) ==
    [i \in 1..Len(t.Out) |->
        [Head |-> head, SrcTransaction |-> Hash(t),
         Address |-> t.Out[i].Address, Hours |-> t.Out[i].Hours]]

(***************************************************************************)
(* coin.Blockchain as a method sees it: Head is bc.Head().Head, Fee what   *)
(* bc.TransactionFee answers for the transaction of the call (an error or  *)
(* a fee), Valid the transactions bc.VerifyTransaction accepts.            *)
(***************************************************************************)
Heads == {1, 2}

FeeResult(err, fee) == [err |-> err, fee |-> fee]

FeeResults == {FeeResult(ErrFee, 0), FeeResult(ErrNil, 2)}

Blockchains == [Head : Heads, Fee : FeeResults, Valid : SUBSET Transactions]

\* the ledgers that differ in what RecordTxn reads for t
LedgersFor(t) == {bc \in Blockchains : bc.Valid \subseteq {t}}

\* the ledgers that differ in what Refresh reads
LedgersByValidity ==
    {bc \in Blockchains : bc.Head = 1 /\ bc.Fee.err = ErrFee}

bcVerifyTransaction(bc, t) == IF t \in bc.Valid THEN ErrNil ELSE ErrInvalid

\* arguments maxSize and burnFactor of RecordTxn
MaxSizes == {3, 4}

BurnFactors == {0, 2}

\* the policy check without its size test
VerifyTransactionNoSize(bc, t, maxSize, burnFactor) ==
    IF bc.Fee.err # ErrNil THEN bc.Fee.err
    ELSE IF burnFactor # 0 /\ OutputHours(t) \div burnFactor > bc.Fee.fee
         THEN ErrFeeMinimum
    ELSE ErrNil

\* the policy check with >= for > in its size test
VerifyTransactionSizeInclusive(bc, t, maxSize, burnFactor) ==
    IF Size(t) >= maxSize THEN ErrTooLarge
    ELSE IF bc.Fee.err # ErrNil THEN bc.Fee.err
    ELSE IF burnFactor # 0 /\ OutputHours(t) \div burnFactor > bc.Fee.fee
         THEN ErrFeeMinimum
    ELSE ErrNil

(***************************************************************************)
(* VerifyTransaction, lines 14-25.                                         *)
(***************************************************************************)
VerifyTransaction(bc, t, maxSize, burnFactor) ==
    IF Size(t) > maxSize THEN ErrTooLarge
    ELSE IF bc.Fee.err # ErrNil THEN bc.Fee.err
    ELSE IF burnFactor # 0 /\ OutputHours(t) \div burnFactor > bc.Fee.fee
         THEN ErrFeeMinimum
    ELSE ErrNil

\* the arguments and the ledger's fee answers of a direct call
PolicySizes == 2..5

PolicyBurnFactors == 0..3

PolicyFees == {FeeResult(ErrFee, 0)} \cup {FeeResult(ErrNil, f) : f \in 0..6}

PolicyLedgers == {bc \in [Head : {1}, Fee : PolicyFees, Valid : {{}}] : TRUE}

\* a call of the exported function by another package
VerifyTransactionCall(bc, t, maxSize, burnFactor) ==
    /\ ret' = [op |-> "VerifyTransaction", t |-> t, maxSize |-> maxSize,
               burnFactor |-> burnFactor, fee |-> bc.Fee,
               err |-> VerifyTransaction(bc, t, maxSize, burnFactor)]
    /\ UNCHANGED <<Txns, Unspent, now>>

(***************************************************************************)
(* The maps.  A Go map is a function on the set of its keys.               *)
(***************************************************************************)
EmptyMap == [k \in {} |-> 0]

\* delete(m, k) for every k of ks
Delete(m, ks) == [k \in DOMAIN m \ ks |-> m[k]]

\* m[k] = v
Put(m, k, v) == [x \in DOMAIN m \cup {k} |-> IF x = k THEN v ELSE m[x]]

Range(s) == {s[i] : i \in DOMAIN s}

\* the lists over S of length at most n
SeqsUpTo(S, n) == UNION {[1..k -> S] : k \in 0..n}

\* no RecordTxn call stands between line 119 and line 121
NoAdmission == [op |-> "none"]

Init ==
    /\ Txns = EmptyMap
    /\ Unspent = EmptyMap
    /\ now = 1
    /\ ret = [op |-> "NewUnconfirmedTxnPool"]
    /\ admitting = NoAdmission

\* util.Now(): no reading lies before the previous one
ClockReadings == {n \in Times : n >= now}

\* the write without the presence test: a missing key reads as the zero entry
SetAnnouncedUnguarded(h, t) ==
    /\ Txns' = Put(Txns, h,
                   IF h \in DOMAIN Txns
                   THEN [Txns[h] EXCEPT !.Announced = t]
                   ELSE [Txn |-> [In |-> <<>>, Out |-> <<>>], Received |-> ZeroTime,
                         Checked |-> ZeroTime, Announced |-> t])
    /\ ret' = [op |-> "SetAnnounced", h |-> h, t |-> t]
    /\ UNCHANGED <<Unspent, now>>

(***************************************************************************)
(* SetAnnounced, lines 75-80.                                              *)
(***************************************************************************)
SetAnnounced(h, t) ==
    /\ Txns' = IF h \in DOMAIN Txns
               THEN Put(Txns, h, [Txns[h] EXCEPT !.Announced = t])
               ELSE Txns
    /\ ret' = [op |-> "SetAnnounced", h |-> h, t |-> t]
    /\ UNCHANGED <<Unspent, now>>

\* the constructor that marks the new entry as announced at its creation
createUnconfirmedTxnAnnounced(t, n) ==
    [Txn |-> t, Received |-> n, Checked |-> n, Announced |-> n]

(***************************************************************************)
(* createUnconfirmedTxn, lines 83-92; n is the reading of util.Now().      *)
(***************************************************************************)
createUnconfirmedTxn(t, n) ==
    [Txn |-> t, Received |-> n, Checked |-> n, Announced |-> ZeroTime]

(***************************************************************************)
(* RecordTxn, lines 97-124.  util.Now() is read only on the two paths that *)
(* pass both verifications.                                                *)
(***************************************************************************)
\* the update that resets Checked instead of refreshing it
TouchResetsChecked(ut, n) == [ut EXCEPT !.Received = n, !.Checked = ZeroTime]

\* the re-admission that leaves Checked as it was
TouchReceivedOnly(ut, n) == [ut EXCEPT !.Received = n]

\* the re-admission that forgets the announcement
TouchResetsAnnounced(ut, n) ==
    [ut EXCEPT !.Received = n, !.Checked = n, !.Announced = ZeroTime]

\* the re-admission that sets Received back to the zero time
TouchResetsReceived(ut, n) == [ut EXCEPT !.Received = ZeroTime, !.Checked = n]

\* lines 111-113: the timestamps of an entry the pool already has
Touch(ut, n) == [ut EXCEPT !.Received = n, !.Checked = n]

RecordTxnCall(bc, t, maxSize, burnFactor, err, existed) ==
    [op |-> "RecordTxn", t |-> t, maxSize |-> maxSize,
     burnFactor |-> burnFactor, fee |-> bc.Fee, valid |-> (t \in bc.Valid),
     err |-> err, existed |-> existed]

\* RecordTxn that predicts the outputs anew from the head of every call it admits
RecordTxnRecomputes(bc, t, maxSize, burnFactor) ==
    LET perr == VerifyTransaction(bc, t, maxSize, burnFactor)
        verr == bcVerifyTransaction(bc, t)
        err == IF perr # ErrNil THEN perr ELSE verr
        h == Hash(t)
    IN  IF err # ErrNil
        THEN /\ ret' = RecordTxnCall(bc, t, maxSize, burnFactor, err, FALSE)
             /\ UNCHANGED <<Txns, Unspent, now>>
        ELSE /\ \E n \in ClockReadings :
                    /\ now' = n
                    /\ Txns' = Put(Txns, h, IF h \in DOMAIN Txns
                                            THEN Touch(Txns[h], n)
                                            ELSE createUnconfirmedTxn(t, n))
             /\ Unspent' = Put(Unspent, h, CreateUnspents(bc.Head, t))
             /\ ret' = RecordTxnCall(bc, t, maxSize, burnFactor, ErrNil,
                                     h \in DOMAIN Txns)

RecordTxn(bc, t, maxSize, burnFactor) ==
    LET perr == VerifyTransaction(bc, t, maxSize, burnFactor)
        verr == bcVerifyTransaction(bc, t)
        h == Hash(t)
    IN  IF perr # ErrNil
        THEN /\ ret' = RecordTxnCall(bc, t, maxSize, burnFactor, perr, FALSE)
             /\ UNCHANGED <<Txns, Unspent, now>>
        ELSE IF verr # ErrNil
        THEN /\ ret' = RecordTxnCall(bc, t, maxSize, burnFactor, verr, FALSE)
             /\ UNCHANGED <<Txns, Unspent, now>>
        ELSE IF h \in DOMAIN Txns
        THEN /\ \E n \in ClockReadings :
                    /\ now' = n
                    /\ Txns' = Put(Txns, h, Touch(Txns[h], n))
             /\ ret' = RecordTxnCall(bc, t, maxSize, burnFactor, ErrNil, TRUE)
             /\ UNCHANGED Unspent
        ELSE /\ \E n \in ClockReadings :
                    /\ now' = n
                    /\ Txns' = Put(Txns, h, createUnconfirmedTxn(t, n))
             /\ Unspent' = Put(Unspent, h, CreateUnspents(bc.Head, t))
             /\ ret' = RecordTxnCall(bc, t, maxSize, burnFactor, ErrNil, FALSE)

\* removeTxns that empties the pool when it is given a hash
removeTxnsClears(pool, hashes) ==
    IF hashes = {} THEN pool ELSE [Txns |-> EmptyMap, Unspent |-> EmptyMap]

\* removeTxns that forgets the second delete
removeTxnsOnlyTxns(pool, hashes) ==
    [Txns |-> Delete(pool.Txns, hashes), Unspent |-> pool.Unspent]

(***************************************************************************)
(* removeTxns, lines 146-152: both maps lose every hash of the list; the   *)
(* list is given by its elements, the deletes being independent.           *)
(***************************************************************************)
removeTxns(pool, hashes) ==
    [Txns |-> Delete(pool.Txns, hashes), Unspent |-> Delete(pool.Unspent, hashes)]

\* the loop that stops one transaction short
RemoveTransactionsSkipLast(txns) ==
    LET toRemove == [i \in 1..(Len(txns) - 1) |-> Hash(txns[i])]
        after == removeTxns([Txns |-> Txns, Unspent |-> Unspent], Range(toRemove))
    IN  /\ Txns' = after.Txns
        /\ Unspent' = after.Unspent
        /\ ret' = [op |-> "RemoveTransactions", txns |-> txns]
        /\ UNCHANGED now

(***************************************************************************)
(* RemoveTransactions, lines 155-162.                                      *)
(***************************************************************************)
RemoveTransactions(txns) ==
    LET toRemove == [i \in 1..Len(txns) |-> Hash(txns[i])]
        after == removeTxns([Txns |-> Txns, Unspent |-> Unspent], Range(toRemove))
    IN  /\ Txns' = after.Txns
        /\ Unspent' = after.Unspent
        /\ ret' = [op |-> "RemoveTransactions", txns |-> txns]
        /\ UNCHANGED now

(***************************************************************************)
(* Refresh, lines 167-184; n is the reading of util.Now() at line 169.     *)
(* Every entry is visited once and decided on its own fields, so the order *)
(* in which the map is ranged over shows only in the order of toRemove.    *)
(***************************************************************************)
\* the age test with > for >=
ExpiredStrict(e, n, maxAge) == n - e.Received > maxAge

\* line 172
Expired(e, n, maxAge) == n - e.Received >= maxAge

\* the test that finds every entry due for a check
CheckDueAlways(e, n, checkPeriod) == TRUE

\* line 174
CheckDue(e, n, checkPeriod) == n - e.Checked >= checkPeriod

\* the loop body that never writes Checked
RefreshEntryKeepsChecked(bc, e, n, checkPeriod, maxAge) == e

\* lines 172-181: what the loop body leaves in the map for the entry
RefreshEntry(bc, e, n, checkPeriod, maxAge) ==
    IF Expired(e, n, maxAge) THEN e
    ELSE IF CheckDue(e, n, checkPeriod)
         THEN IF bcVerifyTransaction(bc, e.Txn) = ErrNil
              THEN [e EXCEPT !.Checked = n]
              ELSE e
    ELSE e

\* the loop body that keeps an entry whose re-validation failed
RefreshRemovesExpiredOnly(bc, e, n, checkPeriod, maxAge) ==
    Expired(e, n, maxAge)

\* the loop body that lets an entry the ledger accepts grow old
RefreshRemovesRejectedOnly(bc, e, n, checkPeriod, maxAge) ==
    /\ Expired(e, n, maxAge) \/ CheckDue(e, n, checkPeriod)
    /\ bcVerifyTransaction(bc, e.Txn) # ErrNil

\* lines 172-181: whether the entry is appended to toRemove
RefreshRemoves(bc, e, n, checkPeriod, maxAge) ==
    IF Expired(e, n, maxAge) THEN TRUE
    ELSE IF CheckDue(e, n, checkPeriod)
         THEN bcVerifyTransaction(bc, e.Txn) # ErrNil
    ELSE FALSE

RefreshToRemove(bc, checkPeriod, maxAge, n) ==
    {k \in DOMAIN Txns : RefreshRemoves(bc, Txns[k], n, checkPeriod, maxAge)}

RefreshRanged(bc, checkPeriod, maxAge, n) ==
    [k \in DOMAIN Txns |-> RefreshEntry(bc, Txns[k], n, checkPeriod, maxAge)]

\* the call whose util.Now() of line 169 reads n
RefreshAt(bc, checkPeriod, maxAge, n) ==
    LET toRemove == RefreshToRemove(bc, checkPeriod, maxAge, n)
        ranged == RefreshRanged(bc, checkPeriod, maxAge, n)
        after == removeTxns([Txns |-> ranged, Unspent |-> Unspent], toRemove)
    IN  /\ now' = n
        /\ Txns' = after.Txns
        /\ Unspent' = after.Unspent
        /\ ret' = [op |-> "Refresh", checkPeriod |-> checkPeriod,
                   maxAge |-> maxAge, valid |-> bc.Valid,
                   toRemove |-> toRemove]

Refresh(bc, checkPeriod, maxAge) ==
    \E n \in ClockReadings : RefreshAt(bc, checkPeriod, maxAge, n)

(***************************************************************************)
(* FilterKnown, lines 187-195, and GetKnown, lines 198-206.                *)
(***************************************************************************)
\* the loop that puts each unknown hash in front
RECURSIVE FilterKnownLoopPrepends(_, _)
FilterKnownLoopPrepends(txns, unknown) ==
    IF txns = <<>> THEN unknown
    ELSE FilterKnownLoopPrepends(Tail(txns),
             IF Head(txns) \notin DOMAIN Txns
             THEN <<Head(txns)>> \o unknown ELSE unknown)

RECURSIVE FilterKnownLoop(_, _)
FilterKnownLoop(txns, unknown) ==
    IF txns = <<>> THEN unknown
    ELSE FilterKnownLoop(Tail(txns),
             IF Head(txns) \notin DOMAIN Txns
             THEN Append(unknown, Head(txns)) ELSE unknown)

FilterKnownResult(txns) == FilterKnownLoop(txns, <<>>)

FilterKnown(txns) ==
    /\ ret' = [op |-> "FilterKnown", txns |-> txns,
               unknown |-> FilterKnownResult(txns)]
    /\ UNCHANGED <<Txns, Unspent, now>>

RECURSIVE GetKnownLoop(_, _)
GetKnownLoop(txns, known) ==
    IF txns = <<>> THEN known
    ELSE GetKnownLoop(Tail(txns),
             IF Head(txns) \in DOMAIN Txns
             THEN Append(known, Txns[Head(txns)].Txn) ELSE known)

GetKnownResult(txns) == GetKnownLoop(txns, <<>>)

GetKnown(txns) ==
    /\ ret' = [op |-> "GetKnown", txns |-> txns, known |-> GetKnownResult(txns)]
    /\ UNCHANGED <<Txns, Unspent, now>>

(***************************************************************************)
(* SpendsForAddresses, lines 212-225.  bcUnspent is the ledger's unspent   *)
(* pool (hash -> output), a the addresses asked for, order the order in    *)
(* which the map Txns is ranged over.                                      *)
(***************************************************************************)
\* the ledger's unspent pools: which outputs exist and who owns them
Owners == {(1 :> "A") @@ (2 :> "B") @@ (3 :> "B"),
           (1 :> "A") @@ (2 :> "A") @@ (3 :> "B"),
           (1 :> "B") @@ (3 :> "A")}

UnspentPools == {[h \in DOMAIN o |-> [Hash |-> h, Address |-> o[h]]] : o \in Owners}

\* the orders in which a range over the map m may visit its keys
KeyOrders(m) ==
    {o \in [1..Cardinality(DOMAIN m) -> DOMAIN m] : Range(o) = DOMAIN m}

\* auxs[addr] = []UxOut{ux}: the earlier spends of the address are lost
AppendToOverwrites(auxs, addr, ux) == Put(auxs, addr, <<ux>>)

\* auxs[addr] = append(auxs[addr], ux), a missing key reading as nil
AppendTo(auxs, addr, ux) ==
    Put(auxs, addr, Append(IF addr \in DOMAIN auxs THEN auxs[addr] ELSE <<>>, ux))

RECURSIVE SpendsOfInputs(_, _, _, _)
SpendsOfInputs(ins, bcUnspent, a, auxs) ==
    IF ins = <<>> THEN auxs
    ELSE SpendsOfInputs(Tail(ins), bcUnspent, a,
             IF Head(ins) \in DOMAIN bcUnspent
                /\ bcUnspent[Head(ins)].Address \in a
             THEN AppendTo(auxs, bcUnspent[Head(ins)].Address, bcUnspent[Head(ins)])
             ELSE auxs)

RECURSIVE SpendsOfTxns(_, _, _, _)
SpendsOfTxns(order, bcUnspent, a, auxs) ==
    IF order = <<>> THEN auxs
    ELSE SpendsOfTxns(Tail(order), bcUnspent, a,
             SpendsOfInputs(Txns[Head(order)].Txn.In, bcUnspent, a, auxs))

SpendsForAddressesResult(bcUnspent, a, order) ==
    SpendsOfTxns(order, bcUnspent, a, EmptyMap)

SpendsForAddresses(bcUnspent, a, order) ==
    /\ ret' = [op |-> "SpendsForAddresses", bcUnspent |-> bcUnspent, a |-> a,
               auxs |-> SpendsForAddressesResult(bcUnspent, a, order)]
    /\ UNCHANGED <<Txns, Unspent, now>>

(***************************************************************************)
(* SpendsForAddress, lines 227-232.                                        *)
(***************************************************************************)
SpendsForAddress(bcUnspent, a, order) ==
    LET auxs == SpendsForAddressesResult(bcUnspent, {a}, order)
    IN  /\ ret' = [op |-> "SpendsForAddress", bcUnspent |-> bcUnspent, a |-> a,
                   uxs |-> IF a \in DOMAIN auxs THEN auxs[a] ELSE <<>>]
        /\ UNCHANGED <<Txns, Unspent, now>>

(***************************************************************************)
(* The callers that change the pool, with the clock running.               *)
(***************************************************************************)
Next ==
    \/ \E t \in Transactions, maxSize \in MaxSizes, burnFactor \in BurnFactors :
          \E bc \in LedgersFor(t) :
             RecordTxn(bc, t, maxSize, burnFactor) /\ UNCHANGED admitting
    \/ \E h \in Hashes, t \in {ZeroTime} \cup Times :
          SetAnnounced(h, t) /\ UNCHANGED admitting
    \/ \E txns \in SeqsUpTo(Transactions, MaxLen) :
          RemoveTransactions(txns) /\ UNCHANGED admitting
    \/ \E bc \in LedgersByValidity, checkPeriod \in Durations,
          maxAge \in Durations :
          Refresh(bc, checkPeriod, maxAge) /\ UNCHANGED admitting

Spec == Init /\ [][Next]_vars

(***************************************************************************)
(* The callers that query the pool, between admissions and removals.       *)
(***************************************************************************)
NextQuery ==
    \/ \E t \in Transactions, maxSize \in MaxSizes, burnFactor \in BurnFactors :
          \E bc \in LedgersFor(t) :
             RecordTxn(bc, t, maxSize, burnFactor) /\ UNCHANGED admitting
    \/ \E txns \in SeqsUpTo(Transactions, MaxLen) :
          RemoveTransactions(txns) /\ UNCHANGED admitting
    \/ \E txns \in SeqsUpTo(Hashes, MaxLen) :
          FilterKnown(txns) /\ UNCHANGED admitting
    \/ \E txns \in SeqsUpTo(Hashes, MaxLen) :
          GetKnown(txns) /\ UNCHANGED admitting
    \/ \E bcUnspent \in UnspentPools, a \in SUBSET Addresses,
          order \in KeyOrders(Txns) :
          SpendsForAddresses(bcUnspent, a, order) /\ UNCHANGED admitting
    \/ \E bcUnspent \in UnspentPools, a \in Addresses,
          order \in KeyOrders(Txns) :
          SpendsForAddress(bcUnspent, a, order) /\ UNCHANGED admitting

SpecQuery == Init /\ [][NextQuery]_vars

(***************************************************************************)
(* The policy check on its own, over a grid of its arguments.              *)
(***************************************************************************)
NextVerify ==
    /\ UNCHANGED admitting
    /\ \E bc \in PolicyLedgers, t \in Transactions, maxSize \in PolicySizes,
          burnFactor \in PolicyBurnFactors :
          VerifyTransactionCall(bc, t, maxSize, burnFactor)

SpecVerify == Init /\ [][NextVerify]_vars

(***************************************************************************)
(* Callers that run beside one another.  Nothing in the source keeps a     *)
(* second caller out while RecordTxn runs, so the admission of a new       *)
(* transaction is two steps: the call up to the write of Txns (line 119),  *)
(* and the write of Unspent with the return (lines 121-123).  Each map     *)
(* operation is taken as one step; the other callers are whole calls.      *)
(***************************************************************************)
RecordTxnToLine119(bc, t, maxSize, burnFactor) ==
    /\ admitting = NoAdmission
    /\ VerifyTransaction(bc, t, maxSize, burnFactor) = ErrNil
    /\ bcVerifyTransaction(bc, t) = ErrNil
    /\ Hash(t) \notin DOMAIN Txns
    /\ \E n \in ClockReadings :
          /\ now' = n
          /\ Txns' = Put(Txns, Hash(t), createUnconfirmedTxn(t, n))
    /\ admitting' = [op |-> "RecordTxn", bc |-> bc, t |-> t,
                     maxSize |-> maxSize, burnFactor |-> burnFactor]
    /\ UNCHANGED <<Unspent, ret>>

RecordTxnFromLine121 ==
    /\ admitting # NoAdmission
    /\ Unspent' = Put(Unspent, Hash(admitting.t),
                      CreateUnspents(admitting.bc.Head, admitting.t))
    /\ ret' = RecordTxnCall(admitting.bc, admitting.t, admitting.maxSize,
                            admitting.burnFactor, ErrNil, FALSE)
    /\ admitting' = NoAdmission
    /\ UNCHANGED <<Txns, now>>

NextConcurrent ==
    \/ \E t \in Transactions, maxSize \in MaxSizes, burnFactor \in BurnFactors :
          \E bc \in LedgersFor(t) : RecordTxnToLine119(bc, t, maxSize, burnFactor)
    \/ RecordTxnFromLine121
    \/ \E txns \in SeqsUpTo(Transactions, MaxLen) :
          RemoveTransactions(txns) /\ UNCHANGED admitting
    \/ \E bc \in LedgersByValidity, checkPeriod \in Durations,
          maxAge \in Durations :
          Refresh(bc, checkPeriod, maxAge) /\ UNCHANGED admitting
    \/ \E txns \in SeqsUpTo(Hashes, MaxLen) :
          FilterKnown(txns) /\ UNCHANGED admitting
    \/ \E txns \in SeqsUpTo(Hashes, MaxLen) :
          GetKnown(txns) /\ UNCHANGED admitting

SpecConcurrent == Init /\ [][NextConcurrent]_vars

(***************************************************************************)
(* The pool under a scheduler that keeps calling Refresh with one maxAge   *)
(* while the clock runs on.  The clock of the Refresh calls runs one       *)
(* reading past the last reading at which RecordTxn admits, so that an     *)
(* entry can be re-validated at one call and be as old as LiveMaxAge at a  *)
(* later one.  Fairness: the call that reads the last clock reading is     *)
(* made sooner or later, which is what is left of "the clock advances      *)
(* without bound and Refresh keeps being invoked" when the clock is cut    *)
(* at LiveMaxTime.                                                         *)
(***************************************************************************)
LiveMaxTime == MaxTime + 1

LiveMaxAge == MaxTime

LiveReadings == {n \in 1..LiveMaxTime : n >= now}

RefreshLast ==
    \E bc \in LedgersByValidity, checkPeriod \in Durations :
        RefreshAt(bc, checkPeriod, LiveMaxAge, LiveMaxTime)

NextLive ==
    \/ \E t \in Transactions, maxSize \in MaxSizes, burnFactor \in BurnFactors :
          \E bc \in LedgersFor(t) :
             RecordTxn(bc, t, maxSize, burnFactor) /\ UNCHANGED admitting
    \/ \E bc \in LedgersByValidity, checkPeriod \in Durations,
          n \in LiveReadings :
          RefreshAt(bc, checkPeriod, LiveMaxAge, n) /\ UNCHANGED admitting

SpecLive == Init /\ [][NextLive]_vars /\ WF_vars(RefreshLast /\ UNCHANGED admitting)

(***************************************************************************)
(* What a RecordTxn call record says of its arguments.                     *)
(***************************************************************************)
PolicyRejects(c) ==
    \/ Size(c.t) > c.maxSize
    \/ c.fee.err # ErrNil
    \/ c.burnFactor # 0 /\ OutputHours(c.t) \div c.burnFactor > c.fee.fee

RejectionOf(c) ==
    IF Size(c.t) > c.maxSize THEN ErrTooLarge
    ELSE IF c.fee.err # ErrNil THEN c.fee.err
    ELSE IF c.burnFactor # 0 /\ OutputHours(c.t) \div c.burnFactor > c.fee.fee
         THEN ErrFeeMinimum
    ELSE ErrInvalid

Rejected(c) == PolicyRejects(c) \/ ~c.valid

(***************************************************************************)
(* C1.  In every state between two calls the keys of Txns are the keys of  *)
(* Unspent.                                                                *)
(***************************************************************************)
C1_KeysAgree == DOMAIN Txns = DOMAIN Unspent

\* a removal has left one of two recorded transactions
C1_Witness ==
    /\ ret.op \in {"RemoveTransactions", "Refresh"}
    /\ Cardinality(DOMAIN Txns) = 1
    /\ Cardinality(DOMAIN Unspent) = 1

(***************************************************************************)
(* C2.  A RecordTxn call that passes the policy check and the ledger's     *)
(* validation returns (nil, false) when the pool does not hold the hash    *)
(* and leaves it held; when the pool holds it (recorded before and not     *)
(* removed since) the call returns (nil, true), the pool keeps its keys    *)
(* and so its size, and the entry's Checked is not lowered.                *)
(***************************************************************************)
C2_Step ==
    (ret'.op = "RecordTxn" /\ ~Rejected(ret')) =>
        LET h == Hash(ret'.t)
        IN  /\ ret'.err = ErrNil
            /\ IF h \in DOMAIN Txns
               THEN /\ ret'.existed
                    /\ DOMAIN Txns' = DOMAIN Txns
                    /\ DOMAIN Unspent' = DOMAIN Unspent
                    /\ Cardinality(DOMAIN Txns') = Cardinality(DOMAIN Txns)
                    /\ Txns'[h].Checked >= Txns[h].Checked
               ELSE /\ ~ret'.existed
                    /\ h \in DOMAIN Txns'
                    /\ Cardinality(DOMAIN Txns') = Cardinality(DOMAIN Txns) + 1

\* C2: every call of RecordTxn that passes both verifications is such a step
C2_IdempotentReadmission == [][C2_Step]_vars

\* the second call has returned, at a later clock reading than the first
C2_Witness ==
    /\ ret.op = "RecordTxn"
    /\ ret.err = ErrNil
    /\ ret.existed
    /\ Txns[Hash(ret.t)].Checked = MaxTime

(***************************************************************************)
(* C3.  A RecordTxn call that fails the policy check or the ledger's       *)
(* validation returns the error of the check that failed and changes       *)
(* neither map, whether or not the pool holds the transaction.             *)
(***************************************************************************)
C3_Step ==
    (ret'.op = "RecordTxn" /\ Rejected(ret')) =>
        /\ ret'.err = RejectionOf(ret')
        /\ ret'.err # ErrNil
        /\ ~ret'.existed
        /\ Txns' = Txns
        /\ Unspent' = Unspent

\* C3: every call of RecordTxn that fails a verification is such a step
C3_RejectionInert == [][C3_Step]_vars

\* a transaction the pool holds has been rejected, and is still held
C3_Witness ==
    /\ ret.op = "RecordTxn"
    /\ ret.err # ErrNil
    /\ Hash(ret.t) \in DOMAIN Txns
    /\ Cardinality(DOMAIN Txns) = 2

(***************************************************************************)
(* C4.  Refresh removes from both maps every entry with                    *)
(* now - Received >= maxAge, whatever the ledger says of its transaction   *)
(* and whatever its Checked.                                               *)
(***************************************************************************)
C4_Step ==
    ret'.op = "Refresh" =>
        \A h \in DOMAIN Txns :
            (now' - Txns[h].Received >= ret'.maxAge) =>
                /\ h \notin DOMAIN Txns'
                /\ h \notin DOMAIN Unspent'

\* C4: every call of Refresh removes the entries that have reached maxAge
C4_Expiry == [][C4_Step]_vars

\* Refresh has removed an entry of a ledger that accepts every transaction
C4_Witness ==
    /\ ret.op = "Refresh"
    /\ ret.valid = Transactions
    /\ ret.toRemove # {}
    /\ ret.toRemove \cap DOMAIN Txns = {}

(***************************************************************************)
(* C5 as claimed.  Refresh removes every entry whose transaction the       *)
(* ledger rejects, however young the entry.                                *)
(***************************************************************************)
C5_Claimed_Step ==
    ret'.op = "Refresh" =>
        \A h \in DOMAIN Txns :
            (Txns[h].Txn \notin ret'.valid) => h \notin DOMAIN Txns'

\* C5 as claimed: every call of Refresh removes the entries the ledger rejects
C5_Claimed == [][C5_Claimed_Step]_vars

(***************************************************************************)
(* C5 as amended.  Refresh removes from both maps every entry whose        *)
(* transaction the ledger rejects and whose check is due                   *)
(* (now - Checked >= checkPeriod), however young the entry.                *)
(***************************************************************************)
C5_Step ==
    ret'.op = "Refresh" =>
        \A h \in DOMAIN Txns :
            (/\ Txns[h].Txn \notin ret'.valid
             /\ now' - Txns[h].Checked >= ret'.checkPeriod) =>
                /\ h \notin DOMAIN Txns'
                /\ h \notin DOMAIN Unspent'

\* C5 as amended: every call of Refresh removes the rejected entries that are due
C5_RevalidationEviction == [][C5_Step]_vars

\* Refresh has removed an entry that no clock reading makes as old as maxAge
C5_Witness ==
    /\ ret.op = "Refresh"
    /\ ret.maxAge = MaxTime
    /\ ret.toRemove # {}
    /\ ret.toRemove \cap DOMAIN Txns = {}

(***************************************************************************)
(* C6.  After RemoveTransactions(txns) no hash of a transaction of txns is *)
(* a key of Txns or of Unspent; RecordTxn(T) admitted into an empty pool   *)
(* and then RemoveTransactions([T]) leaves both maps empty; and a          *)
(* FilterKnown that follows a removal and asks for removed hashes returns  *)
(* its input.                                                              *)
(***************************************************************************)
C6_Step ==
    /\ ret'.op = "RemoveTransactions" =>
          \A i \in 1..Len(ret'.txns) :
              /\ Hash(ret'.txns[i]) \notin DOMAIN Txns'
              /\ Hash(ret'.txns[i]) \notin DOMAIN Unspent'
    /\ (/\ ret.op = "RecordTxn" /\ ret.err = ErrNil /\ ~ret.existed
        /\ DOMAIN Txns = {Hash(ret.t)}
        /\ ret'.op = "RemoveTransactions" /\ ret'.txns = <<ret.t>>) =>
          /\ Txns' = EmptyMap
          /\ Unspent' = EmptyMap
    /\ (/\ ret.op = "RemoveTransactions"
        /\ ret'.op = "FilterKnown"
        /\ Range(ret'.txns) \subseteq {Hash(t) : t \in Range(ret.txns)}) =>
          ret'.unknown = ret'.txns

\* C6: every removal, and every FilterKnown that follows one, is such a step
C6_RemovalOnConfirmation == [][C6_Step]_vars

\* the removed hash has been asked for after a removal emptied the pool
C6_Witness ==
    /\ ret.op = "FilterKnown"
    /\ ret.txns = <<Hash(Tx1)>>
    /\ ret.unknown = <<Hash(Tx1)>>
    /\ Txns = EmptyMap
    /\ Unspent = EmptyMap
    /\ now > 1

(***************************************************************************)
(* C7.  The result of SpendsForAddresses has no key outside the addresses  *)
(* asked for, and under each address holds every output of the ledger's    *)
(* unspent pool owned by that address once for each input of a pending     *)
(* transaction that refers to it, and nothing else; SpendsForAddress       *)
(* returns that list for its one address.                                  *)
(***************************************************************************)
\* how many inputs of pending transactions refer to the ledger output ux
PendingRefs(ux) ==
    Cardinality({ki \in (DOMAIN Txns) \X UxIds :
                    /\ ki[2] \in DOMAIN Txns[ki[1]].Txn.In
                    /\ Txns[ki[1]].Txn.In[ki[2]] = ux.Hash})

Occurrences(seq, x) == Cardinality({j \in DOMAIN seq : seq[j] = x})

\* uxs is the list of spends the pool holds for addr in the unspent pool
IsSpendsOf(uxs, bcUnspent, addr) ==
    /\ \A j \in DOMAIN uxs :
          /\ uxs[j] \in Range(bcUnspent)
          /\ uxs[j].Address = addr
    /\ \A ux \in Range(bcUnspent) :
          ux.Address = addr => Occurrences(uxs, ux) = PendingRefs(ux)

C7_AddressSpendJoin ==
    /\ ret.op = "SpendsForAddresses" =>
          /\ DOMAIN ret.auxs \subseteq ret.a
          /\ \A addr \in ret.a :
                IsSpendsOf(IF addr \in DOMAIN ret.auxs THEN ret.auxs[addr] ELSE <<>>,
                           ret.bcUnspent, addr)
    /\ ret.op = "SpendsForAddress" => IsSpendsOf(ret.uxs, ret.bcUnspent, ret.a)

\* Tx1 spends an output of B, Tx2 one of A, and the spends of A were asked for
C7_Witness ==
    /\ ret.op = "SpendsForAddresses"
    /\ ret.a = {"A"}
    /\ DOMAIN Txns = Hashes
    /\ DOMAIN ret.bcUnspent = {1, 3}
    /\ ret.auxs = ("A" :> <<[Hash |-> 3, Address |-> "A"]>>)

(***************************************************************************)
(* C8.  VerifyTransaction does not call a transaction of exactly maxSize   *)
(* too large and calls one a unit larger too large; with burnFactor # 0 it *)
(* accepts at outputHours / burnFactor = fee (integer division) and        *)
(* answers 'fee minimum not met' one above; with burnFactor = 0 only the   *)
(* size test and the ledger's fee error reject.                            *)
(***************************************************************************)
C8_SizeFeeBoundary ==
    ret.op = "VerifyTransaction" =>
        LET size == Size(ret.t)
            hours == OutputHours(ret.t)
            feeOk == ret.fee.err = ErrNil
        IN  /\ size = ret.maxSize => ret.err # ErrTooLarge
            /\ size = ret.maxSize + 1 => ret.err = ErrTooLarge
            /\ (size <= ret.maxSize /\ feeOk /\ ret.burnFactor # 0) =>
                  /\ hours \div ret.burnFactor = ret.fee.fee => ret.err = ErrNil
                  /\ hours \div ret.burnFactor = ret.fee.fee + 1 =>
                        ret.err = ErrFeeMinimum
            /\ ret.burnFactor = 0 =>
                  ret.err = IF size > ret.maxSize THEN ErrTooLarge ELSE ret.fee.err

\* accepted at both boundaries, the quotient being rounded down
C8_Witness ==
    /\ ret.op = "VerifyTransaction"
    /\ Size(ret.t) = ret.maxSize
    /\ ret.burnFactor = 2
    /\ OutputHours(ret.t) = 5
    /\ ret.fee = FeeResult(ErrNil, 2)
    /\ ret.err = ErrNil

(***************************************************************************)
(* C9.  SetAnnounced(h, t) on a hash the pool holds sets that entry's      *)
(* Announced to t and changes nothing else; on a hash it does not hold it  *)
(* changes nothing and creates no entry.                                   *)
(***************************************************************************)
C9_Step ==
    ret'.op = "SetAnnounced" =>
        /\ DOMAIN Txns' = DOMAIN Txns
        /\ Unspent' = Unspent
        /\ \A k \in DOMAIN Txns :
              IF k = ret'.h
              THEN /\ Txns'[k].Announced = ret'.t
                   /\ Txns'[k].Txn = Txns[k].Txn
                   /\ Txns'[k].Received = Txns[k].Received
                   /\ Txns'[k].Checked = Txns[k].Checked
              ELSE Txns'[k] = Txns[k]

\* C9: every call of SetAnnounced changes at most the Announced of its hash
C9_SetAnnouncedFrame == [][C9_Step]_vars

\* an announcement for a hash the pool no longer holds, beside a held entry
C9_Witness ==
    /\ ret.op = "SetAnnounced"
    /\ ret.h \notin DOMAIN Txns
    /\ ret.t # ZeroTime
    /\ \E k \in DOMAIN Txns : Txns[k].Announced = MaxTime

(***************************************************************************)
(* C10.  FilterKnown returns the hashes of its input that are not keys of  *)
(* Txns, GetKnown the transactions of those that are, both in input order  *)
(* with repetitions kept; the two lengths add up to the length of the      *)
(* input, and neither call changes the pool.                               *)
(***************************************************************************)
IsKey(h) == h \in DOMAIN Txns

IsNoKey(h) == h \notin DOMAIN Txns

KnownOf(txns) ==
    LET hs == SelectSeq(txns, IsKey) IN [i \in 1..Len(hs) |-> Txns[hs[i]].Txn]

C10_Step ==
    /\ ret'.op = "FilterKnown" =>
          /\ ret'.unknown = SelectSeq(ret'.txns, IsNoKey)
          /\ Len(ret'.unknown) + Len(GetKnownResult(ret'.txns)) = Len(ret'.txns)
          /\ UNCHANGED <<Txns, Unspent>>
    /\ ret'.op = "GetKnown" =>
          /\ ret'.known = KnownOf(ret'.txns)
          /\ Len(ret'.known) + Len(FilterKnownResult(ret'.txns)) = Len(ret'.txns)
          /\ UNCHANGED <<Txns, Unspent>>

\* C10: every call of FilterKnown and of GetKnown is such a step
C10_FilterAndGetKnown == [][C10_Step]_vars

\* two unknown hashes came back in input order from a pool that holds none
C10_Witness ==
    /\ ret.op = "FilterKnown"
    /\ Len(ret.txns) >= 2
    /\ ret.txns[1] # ret.txns[2]
    /\ ret.unknown = ret.txns

(***************************************************************************)
(* C11 as claimed.  While an admission runs beside other callers of the    *)
(* pool, no caller finds a hash that is a key of one map and not of the    *)
(* other: every state another caller can run in has the same keys in Txns  *)
(* and in Unspent.                                                         *)
(***************************************************************************)
C11_Claimed ==
    \A h \in Hashes : (h \in DOMAIN Txns) <=> (h \in DOMAIN Unspent)

(***************************************************************************)
(* C12.  Refresh leaves untouched every entry that is neither expired      *)
(* (now - Received < maxAge) nor due for a check (now - Checked <          *)
(* checkPeriod): the entry stays in Txns and in Unspent with its           *)
(* transaction, Received, Checked, Announced and predicted outputs as they *)
(* were, whatever the ledger says of its transaction.                      *)
(***************************************************************************)
NeitherExpiredNorDue(e, n, checkPeriod, maxAge) ==
    /\ n - e.Received < maxAge
    /\ n - e.Checked < checkPeriod

C12_Step ==
    ret'.op = "Refresh" =>
        \A h \in DOMAIN Txns :
            NeitherExpiredNorDue(Txns[h], now', ret'.checkPeriod, ret'.maxAge) =>
                /\ h \in DOMAIN Txns'
                /\ h \in DOMAIN Unspent'
                /\ Txns'[h] = Txns[h]
                /\ Unspent'[h] = Unspent[h]

\* C12: Refresh leaves the entries that are neither expired nor due as they were
C12_RefreshFrame == [][C12_Step]_vars

\* Refresh has passed over an entry the ledger rejects, neither expired nor due
C12_Witness ==
    /\ ret.op = "Refresh"
    /\ ret.toRemove = {}
    /\ \E h \in DOMAIN Txns :
          /\ Txns[h].Txn \notin ret.valid
          /\ NeitherExpiredNorDue(Txns[h], now, ret.checkPeriod, ret.maxAge)
          /\ Txns[h].Received < now

(***************************************************************************)
(* C13.  For an entry that is not expired and is due for a check           *)
(* (now - Received < maxAge and now - Checked >= checkPeriod), Refresh     *)
(* asks the ledger: if the transaction passes, the entry stays in both     *)
(* maps with Checked set to the call's now and with its transaction,       *)
(* Received, Announced and predicted outputs unchanged; if it fails, the   *)
(* entry leaves both maps.  An expired entry leaves both maps whatever     *)
(* the ledger says.                                                        *)
(***************************************************************************)
DueNotExpired(e, n, checkPeriod, maxAge) ==
    /\ n - e.Received < maxAge
    /\ n - e.Checked >= checkPeriod

C13_Step ==
    ret'.op = "Refresh" =>
        \A h \in DOMAIN Txns :
            /\ (/\ DueNotExpired(Txns[h], now', ret'.checkPeriod, ret'.maxAge)
                /\ Txns[h].Txn \in ret'.valid) =>
                   /\ h \in DOMAIN Txns'
                   /\ h \in DOMAIN Unspent'
                   /\ Txns'[h] = [Txn |-> Txns[h].Txn,
                                  Received |-> Txns[h].Received,
                                  Checked |-> now',
                                  Announced |-> Txns[h].Announced]
                   /\ Unspent'[h] = Unspent[h]
            /\ (/\ DueNotExpired(Txns[h], now', ret'.checkPeriod, ret'.maxAge)
                /\ Txns[h].Txn \notin ret'.valid) =>
                   /\ h \notin DOMAIN Txns'
                   /\ h \notin DOMAIN Unspent'
            /\ (now' - Txns[h].Received >= ret'.maxAge) =>
                   /\ h \notin DOMAIN Txns'
                   /\ h \notin DOMAIN Unspent'

\* C13: Refresh re-validates the due entries: Checked is set to now or the entry leaves
C13_Revalidation == [][C13_Step]_vars

\* Refresh has set Checked of an accepted entry and removed a rejected one,
\* neither of them expired
C13_Witness ==
    /\ ret.op = "Refresh"
    /\ ret.maxAge = MaxTime
    /\ ret.toRemove # {}
    /\ ret.toRemove \cap DOMAIN Txns = {}
    /\ \E h \in DOMAIN Txns :
          /\ Txns[h].Txn \in ret.valid
          /\ Txns[h].Received < Txns[h].Checked
          /\ Txns[h].Checked = now

(***************************************************************************)
(* C14.  The predicted outputs Unspent[h] of a pending transaction are     *)
(* fixed from its admission to its removal.  They are computed at the      *)
(* admission from the transaction and the head of the ledger of that call, *)
(* and no later call (RecordTxn of the same transaction, Refresh,          *)
(* SetAnnounced, RemoveTransactions of other transactions) changes them,   *)
(* whatever head the ledgers of those calls have.                          *)
(***************************************************************************)
C14_Step ==
    /\ \A h \in DOMAIN Unspent \cap DOMAIN Unspent' : Unspent'[h] = Unspent[h]
    /\ \A h \in DOMAIN Unspent' \ DOMAIN Unspent :
          /\ ret'.op = "RecordTxn"
          /\ h = Hash(ret'.t)
          /\ \E head \in Heads : Unspent'[h] = CreateUnspents(head, ret'.t)

\* C14: Unspent[h] is computed at the admission and never changes while h is held
C14_UnspentFixed == [][C14_Step]_vars

\* a transaction has been admitted again and its outputs are still those
\* predicted from head 1, beside outputs predicted from head 2
C14_Witness ==
    /\ ret.op = "RecordTxn"
    /\ ret.err = ErrNil
    /\ ret.existed
    /\ Unspent[Hash(ret.t)] = CreateUnspents(1, ret.t)
    /\ Txns[Hash(ret.t)].Announced # ZeroTime
    /\ \E h \in DOMAIN Unspent :
          /\ h # Hash(ret.t)
          /\ Unspent[h] = CreateUnspents(2, Txns[h].Txn)
          /\ Txns[h].Received < Txns[Hash(ret.t)].Received

(***************************************************************************)
(* C15.  With a clock that never goes backwards, Received and Checked of   *)
(* an entry never decrease while the entry stays in the pool, whatever     *)
(* calls of RecordTxn, Refresh, SetAnnounced and RemoveTransactions are    *)
(* made.                                                                   *)
(***************************************************************************)
C15_Step ==
    \A h \in DOMAIN Txns \cap DOMAIN Txns' :
        /\ Txns'[h].Received >= Txns[h].Received
        /\ Txns'[h].Checked >= Txns[h].Checked

\* C15: Received and Checked of a held entry never decrease
C15_TimestampsMonotone == [][C15_Step]_vars

\* Refresh has removed nothing: one entry has its Checked raised to now,
\* another one was received at now
C15_Witness ==
    /\ ret.op = "Refresh"
    /\ ret.toRemove = {}
    /\ \E h, k \in DOMAIN Txns :
          /\ h # k
          /\ Txns[h].Received < Txns[h].Checked
          /\ Txns[h].Checked = now
          /\ Txns[k].Received = now

(***************************************************************************)
(* C16.  While an entry stays in the pool its Announced is changed by      *)
(* SetAnnounced of its hash alone: RecordTxn of the same transaction,      *)
(* which sets Received and Checked, and Refresh, which may set Checked,    *)
(* leave Announced as it was.                                              *)
(***************************************************************************)
C16_Step ==
    \A h \in DOMAIN Txns \cap DOMAIN Txns' :
        /\ Txns'[h].Announced # Txns[h].Announced =>
              /\ ret'.op = "SetAnnounced"
              /\ ret'.h = h
        /\ ret'.op \in {"RecordTxn", "Refresh"} =>
              Txns'[h].Announced = Txns[h].Announced

\* C16: Announced of a held entry changes in no call but SetAnnounced of its hash
C16_AnnouncedOnlyBySetAnnounced == [][C16_Step]_vars

\* an announced transaction has been admitted again and is still announced
C16_Witness ==
    /\ ret.op = "RecordTxn"
    /\ ret.err = ErrNil
    /\ ret.existed
    /\ Txns[Hash(ret.t)].Announced = MaxTime
    /\ Txns[Hash(ret.t)].Received = now
    /\ Txns[Hash(ret.t)].Checked = now

(***************************************************************************)
(* C17.  A hash that is not a key of the pool becomes one only through a   *)
(* RecordTxn call of its transaction that passes the policy check and the  *)
(* ledger validation; SetAnnounced, Refresh and RemoveTransactions add no  *)
(* key.  The entry such a call creates has Received = Checked = the now of *)
(* the call and Announced = the zero time, whatever entry of the same hash *)
(* the pool held before.                                                   *)
(***************************************************************************)
C17_Step ==
    /\ DOMAIN Txns' \ DOMAIN Txns # {} =>
          /\ ret'.op = "RecordTxn"
          /\ ret'.err = ErrNil
          /\ ~ret'.existed
          /\ ~Rejected(ret')
          /\ DOMAIN Txns' \ DOMAIN Txns = {Hash(ret'.t)}
          /\ Txns'[Hash(ret'.t)] = [Txn |-> ret'.t, Received |-> now',
                                    Checked |-> now', Announced |-> ZeroTime]
    /\ DOMAIN Unspent' \ DOMAIN Unspent = DOMAIN Txns' \ DOMAIN Txns

\* C17: a key appears only by an accepted RecordTxn, with fresh timestamps
C17_FreshAdmission == [][C17_Step]_vars

\* a transaction has been admitted as new at the last clock reading, beside
\* an entry that is announced and was received earlier
C17_Witness ==
    /\ ret.op = "RecordTxn"
    /\ ret.err = ErrNil
    /\ ~ret.existed
    /\ now = MaxTime
    /\ Txns[Hash(ret.t)] = [Txn |-> ret.t, Received |-> now,
                            Checked |-> now, Announced |-> ZeroTime]
    /\ \E h \in DOMAIN Txns : /\ Txns[h].Announced # ZeroTime
                              /\ Txns[h].Received < now

(***************************************************************************)
(* C18.  Where Refresh keeps being called with the maxAge LiveMaxAge and   *)
(* the clock runs on, every entry of the pool is absent sooner or later    *)
(* unless RecordTxn admits its transaction again, and that although the    *)
(* ledger may accept the transaction at every re-validation.  With the     *)
(* clock cut at LiveMaxTime the entries concerned are those that reach the *)
(* age LiveMaxAge by LiveMaxTime.                                          *)
(***************************************************************************)
ReachesMaxAge(h) ==
    /\ h \in DOMAIN Txns
    /\ Txns[h].Received + LiveMaxAge <= LiveMaxTime

Readmitted(h) ==
    /\ ret.op = "RecordTxn"
    /\ ret.err = ErrNil
    /\ ret.existed
    /\ Hash(ret.t) = h

\* C18: an entry that is not admitted again is absent sooner or later
C18_EventualEviction ==
    \A h \in Hashes : ReachesMaxAge(h) ~> (h \notin DOMAIN Txns \/ Readmitted(h))

\* the Refresh of the last clock reading, with a ledger that accepts every
\* transaction, has removed an entry and set Checked of a younger one
C18_Witness ==
    /\ ret.op = "Refresh"
    /\ ret.valid = Transactions
    /\ now = LiveMaxTime
    /\ ret.toRemove # {}
    /\ ret.toRemove \cap DOMAIN Txns = {}
    /\ \E h \in DOMAIN Txns : /\ Txns[h].Received < now
                              /\ Txns[h].Checked = now

(***************************************************************************)
(* C19.  RemoveTransactions(txns) deletes from Txns and from Unspent       *)
(* exactly the keys that are the hash of a transaction of txns; a          *)
(* transaction of txns whose hash is no key changes nothing; every other   *)
(* entry stays in both maps with its transaction, Received, Checked,       *)
(* Announced and predicted outputs as they were.                           *)
(***************************************************************************)
HashesOf(txns) == {Hash(txns[i]) : i \in 1..Len(txns)}

C19_Step ==
    ret'.op = "RemoveTransactions" =>
        /\ DOMAIN Txns' = DOMAIN Txns \ HashesOf(ret'.txns)
        /\ DOMAIN Unspent' = DOMAIN Unspent \ HashesOf(ret'.txns)
        /\ \A h \in DOMAIN Txns' : Txns'[h] = Txns[h]
        /\ \A h \in DOMAIN Unspent' : Unspent'[h] = Unspent[h]
        /\ HashesOf(ret'.txns) \cap DOMAIN Txns = {} =>
              /\ Txns' = Txns
              /\ Unspent' = Unspent

\* C19: a removal deletes the listed hashes from both maps and nothing else
C19_RemoveTransactionsFrame == [][C19_Step]_vars

\* a removal of one transaction, listed twice, has left the entry of the
\* other one, announced and re-validated
C19_Witness ==
    /\ ret.op = "RemoveTransactions"
    /\ ret.txns = <<Tx1, Tx1>>
    /\ DOMAIN Txns = {Hash(Tx2)}
    /\ DOMAIN Unspent = {Hash(Tx2)}
    /\ Txns[Hash(Tx2)].Announced # ZeroTime
    /\ Txns[Hash(Tx2)].Received < Txns[Hash(Tx2)].Checked

(***************************************************************************)
(* C20.  With a clock that never goes backwards, every entry of every      *)
(* reachable pool has Received <= Checked: admission and re-admission set  *)
(* both to one now, and Refresh sets Checked to its now.                   *)
(***************************************************************************)
\* C20: Received of an entry is never later than its Checked
C20_ReceivedBeforeChecked ==
    \A h \in DOMAIN Txns : Txns[h].Received <= Txns[h].Checked

\* after a re-admission at the last clock reading the pool holds an entry
\* with Received = Checked and one with Received < Checked
C20_Witness ==
    /\ ret.op = "RecordTxn"
    /\ ret.err = ErrNil
    /\ ret.existed
    /\ now = MaxTime
    /\ Txns[Hash(ret.t)].Received = now
    /\ Txns[Hash(ret.t)].Checked = now
    /\ \E h \in DOMAIN Txns : Txns[h].Received < Txns[h].Checked

====
